---- MODULE Spec2Model ----
(***************************************************************************)
(* Model of the quality-capability application:                            *)
(*   - QualityCapabilityManager (src/quality_manager.py, and the identical  *)
(*     class in src/streamlit_app.py): the capability catalog;              *)
(*   - WebScraper (src/streamlit_app.py): term counting over a fetched page *)
(*     and the derivation of suggested scores;                              *)
(*   - the "Website Analysis" handler of create_data_collection_ui.         *)
(* Three specifications share the module: Spec (the catalog), SpecScore    *)
(* (the score derivation as a pure function of its inputs) and SpecScrape  *)
(* (fetch, count, derive, display, adopt).                                  *)
(***************************************************************************)
EXTENDS Integers, Sequences, FiniteSets, TLC

VARIABLES
    capabilities,      \* QualityCapabilityManager.capabilities: id -> capability
    pre_capabilities,  \* history: capabilities before the last manager call
    last_call,         \* history: the last manager call, its arguments, what it raised
    ncalls,            \* history: number of manager calls made so far
    download,          \* the JSON offered by Export Capabilities, and the catalog it was made from
    results,           \* the dict built by scrape_website / given to the score derivation
    page,              \* the web page at the analysed URL: its text and the hrefs of its links
    widgets,           \* what the Website Analysis handler rendered in its last run
    session_state      \* st.session_state["score_<cap_id>"] entries

vars == <<capabilities, pre_capabilities, last_call, ncalls, download,
          results, page, widgets, session_state>>

catalog_vars == <<capabilities, pre_capabilities, last_call, ncalls, download>>
scrape_vars == <<results, page, widgets, session_state>>

-----------------------------------------------------------------------------
(* Bounds of the model.                                                     *)

MaxOps == 2          \* manager calls explored from the seeded catalog
MaxCategoryOps == 3  \* manager calls explored when only ids and categories vary
MaxCerts == 6        \* certifications found, as input of the score derivation
MaxMentions == 12    \* each mention count, as input of the score derivation
BigMentions == 10000 \* one very large mention count, as input of the score derivation
MaxPages == 4        \* quality pages, as input of the score derivation
MaxTokens == 3       \* pieces of text a web page is made of
MaxLinks == 1        \* links on a web page

-----------------------------------------------------------------------------
(* Python values.                                                           *)

\* An optional argument: None is the empty tuple, a supplied value v is <<v>>.
None == <<>>
Some(v) == <<v>>

\* The empty dict.
EmptyDict == [k \in {} |-> ""]

\* Truthiness of an optional str argument ("if name:").
TruthyStr(o) == o # None /\ o[1] # ""

\* Truthiness of an optional dict argument ("if scoring_criteria:").
TruthyDict(o) == o # None /\ DOMAIN o[1] # {}

-----------------------------------------------------------------------------
(* QualityCapability and the seeded catalog.                                *)

QualityCapability(name, category, scoring_criteria) ==
    [name |-> name, category |-> category, scoring_criteria |-> scoring_criteria]

Levels == {"1", "3", "5", "7", "10"}

QMSCriteria ==
    [k \in Levels |->
        CASE k = "1" -> "No formal QMS"
          [] k = "3" -> "Basic quality procedures"
          [] k = "5" -> "ISO 9001 implementation in progress"
          [] k = "7" -> "ISO 9001 certified"
          [] k = "10" -> "Advanced integrated QMS with multiple certifications"]

SPCCriteria ==
    [k \in Levels |->
        CASE k = "1" -> "No SPC implementation"
          [] k = "3" -> "Basic data collection"
          [] k = "5" -> "Regular SPC charts and analysis"
          [] k = "7" -> "Advanced SPC with process capability studies"
          [] k = "10" -> "Real-time SPC with automated controls"]

APQPCriteria ==
    [k \in Levels |->
        CASE k = "1" -> "No formal product quality planning"
          [] k = "3" -> "Basic planning procedures"
          [] k = "5" -> "APQP framework implemented"
          [] k = "7" -> "Full APQP with cross-functional teams"
          [] k = "10" -> "Advanced APQP with digital integration"]

\* d[k] = v on a dict: insert or overwrite.
dict_set(d, k, v) == [x \in DOMAIN d \cup {k} |-> IF x = k THEN v ELSE d[x]]

\* del d[k] on a dict: KeyError when k is absent.
dict_del(d, k) ==
    IF k \in DOMAIN d
    THEN [caps |-> [x \in DOMAIN d \ {k} |-> d[x]], raised |-> "none"]
    ELSE [caps |-> d, raised |-> "KeyError"]

add_capability_keep(caps, id, name, category, scoring_criteria) ==
    [caps |-> IF id \in DOMAIN caps THEN caps
              ELSE dict_set(caps, id, QualityCapability(name, category, scoring_criteria)),
     raised |-> "none"]

add_capability(caps, id, name, category, scoring_criteria) ==
    [caps |-> dict_set(caps, id, QualityCapability(name, category, scoring_criteria)),
     raised |-> "none"]

remove_capability_unguarded(caps, id) == dict_del(caps, id)

remove_capability(caps, id) ==
    IF id \in DOMAIN caps
    THEN dict_del(caps, id)
    ELSE [caps |-> caps, raised |-> "none"]

edit_capability_overwrite(caps, id, name, category, scoring_criteria) ==
    IF id \in DOMAIN caps
    THEN [caps |-> [caps EXCEPT ![id] =
                      [name |-> IF name # None THEN name[1] ELSE @.name,
                       category |-> IF TruthyStr(category) THEN category[1] ELSE @.category,
                       scoring_criteria |-> IF TruthyDict(scoring_criteria)
                                            THEN scoring_criteria[1]
                                            ELSE @.scoring_criteria]],
          raised |-> "none"]
    ELSE [caps |-> caps, raised |-> "none"]

edit_capability(caps, id, name, category, scoring_criteria) ==
    IF id \in DOMAIN caps
    THEN [caps |-> [caps EXCEPT ![id] =
                      [name |-> IF TruthyStr(name) THEN name[1] ELSE @.name,
                       category |-> IF TruthyStr(category) THEN category[1] ELSE @.category,
                       scoring_criteria |-> IF TruthyDict(scoring_criteria)
                                            THEN scoring_criteria[1]
                                            ELSE @.scoring_criteria]],
          raised |-> "none"]
    ELSE [caps |-> caps, raised |-> "none"]

\* The catalog after QualityCapabilityManager.__init__.
base_capabilities ==
    add_capability(
        add_capability(
            add_capability(EmptyDict,
                "QMS", "Quality Management System", "System", QMSCriteria).caps,
            "SPC", "Statistical Process Control", "Tools", SPCCriteria).caps,
        "APQP", "Advanced Product Quality Planning", "Process", APQPCriteria).caps

\* get_capabilities_by_category: the entries whose category is the one asked for.
get_capabilities_by_category_unfiltered(caps, category) == caps

get_capabilities_by_category(caps, category) ==
    [id \in {x \in DOMAIN caps : caps[x].category = category} |-> caps[id]]

\* get_all_categories: list(set(...)) of the categories. The order a set is
\* listed in is not fixed, so this is the set of lists the call may return.
get_all_categories_undeduplicated(caps) ==
    LET S == {caps[id].category : id \in DOMAIN caps} IN
    {lst \in [1 .. Cardinality(DOMAIN caps) -> S] : {lst[i] : i \in DOMAIN lst} = S}

get_all_categories(caps) ==
    LET S == {caps[id].category : id \in DOMAIN caps} IN
    {lst \in [1 .. Cardinality(S) -> S] : {lst[i] : i \in DOMAIN lst} = S}

\* A JSON object is the sequence of its <<key, value>> members.
json_has(obj, key) == \E i \in 1 .. Len(obj) : obj[i][1] = key

json_get(obj, key) == obj[CHOOSE i \in 1 .. Len(obj) : obj[i][1] = key][2]

\* The members of the exported object of one capability.
export_entry_criteria_key(cap) ==
    <<<<"name", cap.name>>, <<"category", cap.category>>,
      <<"criteria", cap.scoring_criteria>>>>

export_entry(cap) ==
    <<<<"name", cap.name>>, <<"category", cap.category>>,
      <<"scoring_criteria", cap.scoring_criteria>>>>

\* export_data: one member per capability (listed in some fixed order of the ids).
export_data(caps) ==
    LET order == CHOOSE o \in [1 .. Cardinality(DOMAIN caps) -> DOMAIN caps] :
                     {o[i] : i \in DOMAIN o} = DOMAIN caps
    IN  [i \in 1 .. Cardinality(DOMAIN caps) |-> <<order[i], export_entry(caps[order[i]])>>]

\* The loop of Confirm Import over import_data.items(), from member k on:
\* cap_data["name"], cap_data["category"], cap_data["scoring_criteria"] raise
\* KeyError on a missing member, which ends the loop (the handler's except).
RECURSIVE import_from(_, _, _)
import_from(caps, import_data, k) ==
    IF k > Len(import_data) THEN [caps |-> caps, raised |-> "none"]
    ELSE LET cap_id == import_data[k][1]
             cap_data == import_data[k][2] IN
         IF /\ json_has(cap_data, "name")
            /\ json_has(cap_data, "category")
            /\ json_has(cap_data, "scoring_criteria")
         THEN import_from(add_capability(caps, cap_id,
                                         json_get(cap_data, "name"),
                                         json_get(cap_data, "category"),
                                         json_get(cap_data, "scoring_criteria")).caps,
                          import_data, k + 1)
         ELSE [caps |-> caps, raised |-> "KeyError"]

import_capabilities_first_only(caps, import_data) ==
    import_from(caps, SubSeq(import_data, 1, 1), 1)

import_capabilities(caps, import_data) == import_from(caps, import_data, 1)

-----------------------------------------------------------------------------
(* Arguments the manager is called with.                                    *)

IdInputs == {"QMS", "SPC", "X"}
NameInputs == {"", "Renamed"}
CategoryInputs == {"", "Lab"}
NewCriteria == [k \in {"1", "5"} |-> IF k = "1" THEN "None in place" ELSE "In place"]
CriteriaInputs == {EmptyDict, NewCriteria}

Optional(S) == {None} \cup {Some(v) : v \in S}

NoCall == [op |-> "init", id |-> "", name |-> None, category |-> None,
           scoring_criteria |-> None, import_data |-> <<>>, raised |-> "none"]

NoDownload == [data |-> <<>>, source |-> EmptyDict]

\* Files offered to Import Capabilities.
OffLevelCriteria == [k \in {"2"} |-> "Between levels"]

ImportedEntry == <<<<"name", "Imported">>, <<"category", "Lab">>,
                   <<"scoring_criteria", NewCriteria>>>>

EntryWithoutCategory == <<<<"name", "Imported">>, <<"scoring_criteria", NewCriteria>>>>

OffLevelEntry == <<<<"name", "Imported">>, <<"category", "Lab">>,
                   <<"scoring_criteria", OffLevelCriteria>>>>

ImportInputs ==
    {<< <<"X", ImportedEntry>>, <<"SPC", ImportedEntry>> >>,
     << <<"X", ImportedEntry>>, <<"QMS", EntryWithoutCategory>>, <<"SPC", ImportedEntry>> >>,
     << <<"X", OffLevelEntry>> >>}

-----------------------------------------------------------------------------
(* Manager calls.                                                           *)

\* One call of add_capability, allowed while fewer than limit calls were made.
AddCall(id, name, category, scoring_criteria, limit) ==
    LET r == add_capability(capabilities, id, name, category, scoring_criteria) IN
    /\ ncalls < limit
    /\ capabilities' = r.caps
    /\ pre_capabilities' = capabilities
    /\ last_call' = [op |-> "add", id |-> id, name |-> Some(name),
                     category |-> Some(category),
                     scoring_criteria |-> Some(scoring_criteria),
                     import_data |-> <<>>, raised |-> r.raised]
    /\ ncalls' = ncalls + 1
    /\ UNCHANGED <<download, scrape_vars>>

\* One call of remove_capability.
RemoveCall(id, limit) ==
    LET r == remove_capability(capabilities, id) IN
    /\ ncalls < limit
    /\ capabilities' = r.caps
    /\ pre_capabilities' = capabilities
    /\ last_call' = [op |-> "remove", id |-> id, name |-> None, category |-> None,
                     scoring_criteria |-> None, import_data |-> <<>>,
                     raised |-> r.raised]
    /\ ncalls' = ncalls + 1
    /\ UNCHANGED <<download, scrape_vars>>

\* One call of edit_capability.
EditCall(id, name, category, scoring_criteria, limit) ==
    LET r == edit_capability(capabilities, id, name, category, scoring_criteria) IN
    /\ ncalls < limit
    /\ capabilities' = r.caps
    /\ pre_capabilities' = capabilities
    /\ last_call' = [op |-> "edit", id |-> id, name |-> name, category |-> category,
                     scoring_criteria |-> scoring_criteria, import_data |-> <<>>,
                     raised |-> r.raised]
    /\ ncalls' = ncalls + 1
    /\ UNCHANGED <<download, scrape_vars>>

AddCapability ==
    \E id \in IdInputs, name \in NameInputs, category \in CategoryInputs,
       scoring_criteria \in CriteriaInputs :
        AddCall(id, name, category, scoring_criteria, MaxOps)

RemoveCapability ==
    \E id \in IdInputs : RemoveCall(id, MaxOps)

EditCapability ==
    \E id \in IdInputs, name \in Optional(NameInputs),
       category \in Optional(CategoryInputs),
       scoring_criteria \in Optional(CriteriaInputs) :
        EditCall(id, name, category, scoring_criteria, MaxOps)

\* "Export Capabilities" pressed.
ExportCapabilities ==
    /\ download' = [data |-> export_data(capabilities), source |-> capabilities]
    /\ UNCHANGED <<capabilities, pre_capabilities, last_call, ncalls>>
    /\ UNCHANGED scrape_vars

\* "Confirm Import" pressed for an uploaded file: one of the files above, or the
\* file downloaded from an earlier export.
ImportCapabilities ==
    \E import_data \in ImportInputs \cup
                       (IF download.data # <<>> THEN {download.data} ELSE {}) :
        LET r == import_capabilities(capabilities, import_data) IN
        /\ ncalls < MaxOps
        /\ capabilities' = r.caps
        /\ pre_capabilities' = capabilities
        /\ last_call' = [op |-> "import", id |-> "", name |-> None, category |-> None,
                         scoring_criteria |-> None, import_data |-> import_data,
                         raised |-> r.raised]
        /\ ncalls' = ncalls + 1
        /\ UNCHANGED <<download, scrape_vars>>

NoPage == [text |-> <<>>, hrefs |-> <<>>]

NoWidgets == [kind |-> "none", message |-> "", metrics |-> EmptyDict, use_button |-> FALSE]

NoResults == [certifications_found |-> <<>>, quality_mentions |-> 0,
              process_mentions |-> 0, tools_mentions |-> 0, quality_pages |-> <<>>,
              suggested_scores |-> EmptyDict]

InitScrapeIdle ==
    /\ results = NoResults
    /\ page = NoPage
    /\ widgets = NoWidgets
    /\ session_state = EmptyDict

Init ==
    /\ capabilities = base_capabilities
    /\ pre_capabilities = base_capabilities
    /\ last_call = NoCall
    /\ ncalls = 0
    /\ download = NoDownload
    /\ InitScrapeIdle

Next ==
    \/ AddCapability
    \/ RemoveCapability
    \/ EditCapability
    \/ ExportCapabilities
    \/ ImportCapabilities

Spec == Init /\ [][Next]_vars

-----------------------------------------------------------------------------
(* Claims about the catalog, checked under Spec.                            *)

\* Every id other than id has the same entry before and after the last call.
OthersUnchanged(id) ==
    \A x \in (DOMAIN pre_capabilities \cup DOMAIN capabilities) \ {id} :
        /\ x \in DOMAIN pre_capabilities
        /\ x \in DOMAIN capabilities
        /\ capabilities[x] = pre_capabilities[x]

\* C8: add_capability is an upsert. After any add_capability(X, name, category,
\* rubric), in particular one that follows an earlier add of the same X, the
\* catalog holds X once, carrying exactly the fields of this last call; every
\* other id's entry is unchanged and nothing was raised.
C8_AddIsUpsert ==
    last_call.op = "add" =>
        /\ last_call.raised = "none"
        /\ DOMAIN capabilities = DOMAIN pre_capabilities \cup {last_call.id}
        /\ capabilities[last_call.id] =
              QualityCapability(last_call.name[1], last_call.category[1],
                                last_call.scoring_criteria[1])
        /\ OthersUnchanged(last_call.id)

\* C8 witness: X (not seeded, so put there by a first add) was added a second
\* time with different fields, and now carries the second call's fields.
C8_Witness ==
    /\ last_call.op = "add"
    /\ last_call.id = "X"
    /\ "X" \in DOMAIN pre_capabilities
    /\ pre_capabilities["X"].name # last_call.name[1]
    /\ pre_capabilities["X"].category # last_call.category[1]
    /\ capabilities["X"].name = last_call.name[1]
    /\ capabilities["X"].category = last_call.category[1]

\* C9: remove_capability(id) with id absent leaves the whole catalog unchanged and
\* raises nothing; with id present it deletes exactly that entry and leaves every
\* other entry unchanged.
C9_RemoveFrame ==
    last_call.op = "remove" =>
        /\ last_call.raised = "none"
        /\ last_call.id \notin DOMAIN pre_capabilities => capabilities = pre_capabilities
        /\ last_call.id \in DOMAIN pre_capabilities =>
              /\ DOMAIN capabilities = DOMAIN pre_capabilities \ {last_call.id}
              /\ OthersUnchanged(last_call.id)

\* C9 witness: a remove of an id that was not in the catalog.
C9_Witness ==
    /\ last_call.op = "remove"
    /\ last_call.id \notin DOMAIN pre_capabilities
    /\ capabilities = pre_capabilities

\* C9, second case reached: a remove of an id that was in the catalog.
C9_WitnessPresent ==
    /\ last_call.op = "remove"
    /\ last_call.id \in DOMAIN pre_capabilities
    /\ last_call.id \notin DOMAIN capabilities

\* The value a field has after an edit of a present id: the supplied value when
\* it was supplied non-empty, the old value otherwise.
EditedStr(supplied, old) ==
    IF supplied # None /\ supplied[1] # "" THEN supplied[1] ELSE old

EditedDict(supplied, old) ==
    IF supplied # None /\ supplied[1] # EmptyDict THEN supplied[1] ELSE old

\* C10: edit_capability(id, name?, category?, rubric?) is a no-op when id is
\* absent (no entry created, nothing raised); when id is present it changes only
\* those of name, category and rubric that were supplied non-empty and leaves the
\* other fields unchanged; it never changes the set of ids or another capability.
C10_EditFrame ==
    last_call.op = "edit" =>
        /\ last_call.raised = "none"
        /\ DOMAIN capabilities = DOMAIN pre_capabilities
        /\ OthersUnchanged(last_call.id)
        /\ last_call.id \in DOMAIN pre_capabilities =>
              LET old == pre_capabilities[last_call.id]
                  new == capabilities[last_call.id] IN
              /\ new.name = EditedStr(last_call.name, old.name)
              /\ new.category = EditedStr(last_call.category, old.category)
              /\ new.scoring_criteria =
                    EditedDict(last_call.scoring_criteria, old.scoring_criteria)

\* C10 witness: an edit of a present id that supplied an empty name, a non-empty
\* category and no rubric: only the category changed.
C10_Witness ==
    /\ last_call.op = "edit"
    /\ last_call.id \in DOMAIN pre_capabilities
    /\ last_call.name = Some("")
    /\ last_call.category = Some("Lab")
    /\ last_call.scoring_criteria = None
    /\ capabilities[last_call.id].category = "Lab"
    /\ pre_capabilities[last_call.id].category # "Lab"
    /\ capabilities[last_call.id].name = pre_capabilities[last_call.id].name

\* C10, first case reached: an edit of an absent id.
C10_WitnessAbsent ==
    /\ last_call.op = "edit"
    /\ last_call.id \notin DOMAIN pre_capabilities
    /\ capabilities = pre_capabilities

\* C11: edit_capability distinguishes "rubric omitted" from "rubric cleared": for
\* a present id whose rubric is non-empty, an edit that supplies an empty rubric
\* mapping leaves a catalog different from the one the same call leaves with the
\* rubric argument omitted.
C11_ClearedRubricDiffersFromOmitted ==
    (/\ last_call.op = "edit"
     /\ last_call.id \in DOMAIN pre_capabilities
     /\ last_call.scoring_criteria = Some(EmptyDict)
     /\ DOMAIN pre_capabilities[last_call.id].scoring_criteria # {})
    => capabilities #
          edit_capability(pre_capabilities, last_call.id, last_call.name,
                          last_call.category, None).caps

\* An entry of an imported structure that carries all three required members.
WellFormed(cap_data) ==
    /\ json_has(cap_data, "name")
    /\ json_has(cap_data, "category")
    /\ json_has(cap_data, "scoring_criteria")

\* The capability an entry describes.
EntryCapability(cap_data) ==
    QualityCapability(json_get(cap_data, "name"), json_get(cap_data, "category"),
                      json_get(cap_data, "scoring_criteria"))

ImportedIds(import_data) == {import_data[k][1] : k \in 1 .. Len(import_data)}

\* C12: a bulk import rejects an entry lacking name, category or
\* scoring_criteria without aborting: every well-formed entry of the imported
\* structure, those after the malformed one included, is in the catalog
\* afterwards with its fields.
C12_ImportSkipsMalformed ==
    last_call.op = "import" =>
        \A k \in 1 .. Len(last_call.import_data) :
            LET cap_id == last_call.import_data[k][1]
                cap_data == last_call.import_data[k][2] IN
            WellFormed(cap_data) =>
                /\ cap_id \in DOMAIN capabilities
                /\ capabilities[cap_id] = EntryCapability(cap_data)

\* C13: in every catalog reachable from the seeded one by add, edit, remove and
\* bulk import, the rubric keys of every capability are among the levels
\* 1, 3, 5, 7, 10.
C13_RubricKeysAreLevels ==
    \A id \in DOMAIN capabilities :
        DOMAIN capabilities[id].scoring_criteria \subseteq Levels

\* C16: a bulk import of a well-formed structure applies add for every entry:
\* every imported id is in the catalog with exactly the imported name, category
\* and rubric, and every capability under another id is unchanged.
C16_ImportAppliesAdd ==
    (/\ last_call.op = "import"
     /\ \A k \in 1 .. Len(last_call.import_data) :
            WellFormed(last_call.import_data[k][2]))
    => /\ last_call.raised = "none"
       /\ DOMAIN capabilities =
              DOMAIN pre_capabilities \cup ImportedIds(last_call.import_data)
       /\ \A k \in 1 .. Len(last_call.import_data) :
              capabilities[last_call.import_data[k][1]] =
                  EntryCapability(last_call.import_data[k][2])
       /\ \A id \in DOMAIN pre_capabilities \ ImportedIds(last_call.import_data) :
              capabilities[id] = pre_capabilities[id]

\* C16 witness: a well-formed two-entry file was imported; its second entry
\* overwrote a capability that differed, its first created a new id, and a
\* capability outside the file is still there.
C16_Witness ==
    /\ last_call.op = "import"
    /\ Len(last_call.import_data) = 2
    /\ \A k \in 1 .. 2 : WellFormed(last_call.import_data[k][2])
    /\ last_call.import_data[1][1] \notin DOMAIN pre_capabilities
    /\ last_call.import_data[2][1] \in DOMAIN pre_capabilities
    /\ pre_capabilities[last_call.import_data[2][1]] #
           EntryCapability(last_call.import_data[2][2])
    /\ capabilities[last_call.import_data[2][1]] =
           EntryCapability(last_call.import_data[2][2])
    /\ DOMAIN pre_capabilities \ ImportedIds(last_call.import_data) # {}

\* C17: importing an exported structure back into the catalog it was exported
\* from leaves that catalog unchanged, and importing it into any other catalog
\* makes every exported id carry the name, category and rubric it has in the
\* source catalog.
C17_ExportImportRoundTrip ==
    (/\ last_call.op = "import"
     /\ download.data # <<>>
     /\ last_call.import_data = download.data)
    => /\ last_call.raised = "none"
       /\ \A id \in DOMAIN download.source :
              /\ id \in DOMAIN capabilities
              /\ capabilities[id] = download.source[id]
       /\ pre_capabilities = download.source => capabilities = pre_capabilities

\* C17 witness: the export was imported into a catalog that had since changed
\* under an exported id, and the import brought the exported fields back.
C17_Witness ==
    /\ last_call.op = "import"
    /\ download.data # <<>>
    /\ last_call.import_data = download.data
    /\ \E id \in DOMAIN download.source :
          \/ id \notin DOMAIN pre_capabilities
          \/ pre_capabilities[id] # download.source[id]
    /\ \A id \in DOMAIN download.source : capabilities[id] = download.source[id]

\* C17, the same catalog: the export was imported into its own source.
C17_WitnessSame ==
    /\ last_call.op = "import"
    /\ download.data # <<>>
    /\ last_call.import_data = download.data
    /\ pre_capabilities = download.source
    /\ capabilities = pre_capabilities

-----------------------------------------------------------------------------
(* SpecCategories: the catalog under calls that vary only ids and           *)
(* categories, over every seeded id, far enough to empty the catalog.       *)

CategoryIdInputs == {"QMS", "SPC", "APQP", "X"}
CategoryValueInputs == {"Lab", "Tools"}

AddCategorised ==
    \E id \in CategoryIdInputs, category \in CategoryValueInputs :
        AddCall(id, "Renamed", category, NewCriteria, MaxCategoryOps)

RemoveAny ==
    \E id \in CategoryIdInputs : RemoveCall(id, MaxCategoryOps)

Recategorise ==
    \E id \in CategoryIdInputs, category \in CategoryValueInputs :
        EditCall(id, None, Some(category), None, MaxCategoryOps)

NextCategories == AddCategorised \/ RemoveAny \/ Recategorise

SpecCategories == Init /\ [][NextCategories]_vars

-----------------------------------------------------------------------------
(* Claims about the category queries, checked under SpecCategories.         *)

CategoriesOf(caps) == {caps[id].category : id \in DOMAIN caps}

ListItems(lst) == {lst[i] : i \in DOMAIN lst}

\* C14: after any sequence of add, edit and remove, get_all_categories returns
\* exactly the distinct category values of the capabilities now in the catalog,
\* each once (whatever order the list comes in); a category is gone as soon as
\* no capability carries it, and an empty catalog yields an empty list.
C14_CategoriesExact ==
    /\ get_all_categories(capabilities) # {}
    /\ \A lst \in get_all_categories(capabilities) :
          /\ ListItems(lst) = CategoriesOf(capabilities)
          /\ Len(lst) = Cardinality(ListItems(lst))
          /\ DOMAIN capabilities = {} => lst = <<>>

\* C14 witness: two capabilities share a category after the last capability of
\* another category was re-categorised, and that category is no longer listed.
C14_Witness ==
    /\ last_call.op = "edit"
    /\ last_call.id = "QMS"
    /\ "System" \in CategoriesOf(pre_capabilities)
    /\ \A lst \in get_all_categories(capabilities) : "System" \notin ListItems(lst)
    /\ \E x \in DOMAIN capabilities \ {"QMS"} :
          capabilities[x].category = capabilities["QMS"].category

\* C14, the empty catalog reached: every capability was removed.
C14_WitnessEmpty ==
    /\ DOMAIN capabilities = {}
    /\ get_all_categories(capabilities) = {<<>>}

\* C15: in every reachable catalog, get_capabilities_by_category(c) is exactly
\* the entries whose category is c, and every capability id appears in the
\* result of exactly one category of get_all_categories.
C15_CategoryPartition ==
    /\ \A c \in CategoriesOf(capabilities) \cup CategoryValueInputs :
          LET got == get_capabilities_by_category(capabilities, c) IN
          /\ DOMAIN got = {id \in DOMAIN capabilities : capabilities[id].category = c}
          /\ \A id \in DOMAIN got : got[id] = capabilities[id]
    /\ \A lst \in get_all_categories(capabilities) :
          \A id \in DOMAIN capabilities :
              Cardinality({i \in DOMAIN lst :
                  id \in DOMAIN get_capabilities_by_category(capabilities, lst[i])}) = 1

\* C15 witness: a new capability was added into a category another capability
\* already has, in a catalog of at least two categories.
C15_Witness ==
    /\ last_call.op = "add"
    /\ last_call.id \notin DOMAIN pre_capabilities
    /\ Cardinality(CategoriesOf(capabilities)) >= 2
    /\ Cardinality(DOMAIN get_capabilities_by_category(capabilities,
                       capabilities[last_call.id].category)) = 2

-----------------------------------------------------------------------------
(* WebScraper: the lexicon.                                                 *)

certifications ==
    <<"ISO 9001", "ISO 13485", "AS9100", "IATF 16949", "API Q1",
      "ISO 17025", "GMP", "HACCP", "Six Sigma">>

quality_terms ==
    <<"quality management", "quality control", "quality assurance",
      "QMS", "quality policy", "continuous improvement">>

process_terms ==
    <<"SPC", "statistical process control", "FMEA", "process control",
      "quality metrics", "process validation">>

tools_terms ==
    <<"quality tools", "measurement system", "calibration",
      "inspection", "testing equipment">>

-----------------------------------------------------------------------------
(* Text as Python sees it: a str is the sequence of its characters.         *)

\* The characters of each lexicon string.
Chars(s) ==
    CASE s = "ISO 9001" ->
           <<"I", "S", "O", " ", "9", "0", "0", "1">>
      [] s = "ISO 13485" ->
           <<"I", "S", "O", " ", "1", "3", "4", "8", "5">>
      [] s = "AS9100" ->
           <<"A", "S", "9", "1", "0", "0">>
      [] s = "IATF 16949" ->
           <<"I", "A", "T", "F", " ", "1", "6", "9", "4", "9">>
      [] s = "API Q1" ->
           <<"A", "P", "I", " ", "Q", "1">>
      [] s = "ISO 17025" ->
           <<"I", "S", "O", " ", "1", "7", "0", "2", "5">>
      [] s = "GMP" ->
           <<"G", "M", "P">>
      [] s = "HACCP" ->
           <<"H", "A", "C", "C", "P">>
      [] s = "Six Sigma" ->
           <<"S", "i", "x", " ", "S", "i", "g", "m", "a">>
      [] s = "quality management" ->
           <<"q", "u", "a", "l", "i", "t", "y", " ", "m", "a", "n", "a", "g", "e", "m", "e", "n", "t">>
      [] s = "quality control" ->
           <<"q", "u", "a", "l", "i", "t", "y", " ", "c", "o", "n", "t", "r", "o", "l">>
      [] s = "quality assurance" ->
           <<"q", "u", "a", "l", "i", "t", "y", " ", "a", "s", "s", "u", "r", "a", "n", "c", "e">>
      [] s = "QMS" ->
           <<"Q", "M", "S">>
      [] s = "quality policy" ->
           <<"q", "u", "a", "l", "i", "t", "y", " ", "p", "o", "l", "i", "c", "y">>
      [] s = "continuous improvement" ->
           <<"c", "o", "n", "t", "i", "n", "u", "o", "u", "s", " ", "i", "m", "p", "r", "o", "v", "e", "m", "e", "n", "t">>
      [] s = "SPC" ->
           <<"S", "P", "C">>
      [] s = "statistical process control" ->
           <<"s", "t", "a", "t", "i", "s", "t", "i", "c", "a", "l", " ", "p", "r", "o", "c", "e", "s", "s", " ", "c", "o", "n", "t", "r", "o", "l">>
      [] s = "FMEA" ->
           <<"F", "M", "E", "A">>
      [] s = "process control" ->
           <<"p", "r", "o", "c", "e", "s", "s", " ", "c", "o", "n", "t", "r", "o", "l">>
      [] s = "quality metrics" ->
           <<"q", "u", "a", "l", "i", "t", "y", " ", "m", "e", "t", "r", "i", "c", "s">>
      [] s = "process validation" ->
           <<"p", "r", "o", "c", "e", "s", "s", " ", "v", "a", "l", "i", "d", "a", "t", "i", "o", "n">>
      [] s = "quality tools" ->
           <<"q", "u", "a", "l", "i", "t", "y", " ", "t", "o", "o", "l", "s">>
      [] s = "measurement system" ->
           <<"m", "e", "a", "s", "u", "r", "e", "m", "e", "n", "t", " ", "s", "y", "s", "t", "e", "m">>
      [] s = "calibration" ->
           <<"c", "a", "l", "i", "b", "r", "a", "t", "i", "o", "n">>
      [] s = "inspection" ->
           <<"i", "n", "s", "p", "e", "c", "t", "i", "o", "n">>
      [] s = "testing equipment" ->
           <<"t", "e", "s", "t", "i", "n", "g", " ", "e", "q", "u", "i", "p", "m", "e", "n", "t">>

\* str.lower(), on the letters the pages and the lexicon use.
lower_map ==
    ("A" :> "a") @@ ("B" :> "b") @@ ("C" :> "c") @@ ("D" :> "d") @@ ("E" :> "e") @@ ("F" :> "f") @@
    ("G" :> "g") @@ ("H" :> "h") @@ ("I" :> "i") @@ ("J" :> "j") @@ ("K" :> "k") @@ ("L" :> "l") @@
    ("M" :> "m") @@ ("N" :> "n") @@ ("O" :> "o") @@ ("P" :> "p") @@ ("Q" :> "q") @@ ("R" :> "r") @@
    ("S" :> "s") @@ ("T" :> "t") @@ ("U" :> "u") @@ ("V" :> "v") @@ ("W" :> "w") @@ ("X" :> "x") @@
    ("Y" :> "y") @@ ("Z" :> "z")

lower_char(c) == IF c \in DOMAIN lower_map THEN lower_map[c] ELSE c

lower(str) == [i \in 1 .. Len(str) |-> lower_char(str[i])]

\* The characters the regular expression class \w matches.
WordChars ==
    {"a", "b", "c", "d", "e", "f", "g", "h", "i", "j", "k", "l", "m",
     "n", "o", "p", "q", "r", "s", "t", "u", "v", "w", "x", "y", "z",
     "A", "B", "C", "D", "E", "F", "G", "H", "I", "J", "K", "L", "M",
     "N", "O", "P", "Q", "R", "S", "T", "U", "V", "W", "X", "Y", "Z",
     "0", "1", "2", "3", "4", "5", "6", "7", "8", "9", "_"}

\* "sub in str": substring test.
str_contains(sub, str) ==
    \E i \in 1 .. (Len(str) - Len(sub) + 1) :
        /\ str[i] = sub[1]
        /\ SubSeq(str, i, i + Len(sub) - 1) = sub

\* \b at the position just before str[i] (i in 1 .. Len(str)+1): exactly one of
\* the characters on its two sides is a \w character; beyond either end of the
\* string counts as a non-\w character.
is_word_at(str, i) == i >= 1 /\ i <= Len(str) /\ str[i] \in WordChars

word_boundary(str, i) == is_word_at(str, i - 1) # is_word_at(str, i)

\* \b<escaped term>\b matches at position i of str.
regex_match_at_unbounded(term, str, i) ==
    /\ i + Len(term) - 1 <= Len(str)
    /\ str[i] = term[1]
    /\ SubSeq(str, i, i + Len(term) - 1) = term

regex_match_at(term, str, i) ==
    /\ i + Len(term) - 1 <= Len(str)
    /\ str[i] = term[1]
    /\ SubSeq(str, i, i + Len(term) - 1) = term
    /\ word_boundary(str, i)
    /\ word_boundary(str, i + Len(term))

\* len(re.findall(r'\b' + re.escape(term) + r'\b', str)): the matches found
\* scanning from the left, each next search starting after the previous match.
RECURSIVE findall_from(_, _, _)
findall_from(term, str, pos) ==
    IF pos > Len(str) THEN 0
    ELSE IF regex_match_at(term, str, pos)
         THEN 1 + findall_from(term, str, pos + Len(term))
         ELSE findall_from(term, str, pos + 1)

len_findall(term, str) == findall_from(term, str, 1)

\* for term in terms: mentions += len(re.findall(...term.lower()..., text_content))
RECURSIVE count_mentions_from(_, _, _)
count_mentions_from(terms, str, k) ==
    IF k > Len(terms) THEN 0
    ELSE len_findall(lower(Chars(terms[k])), str) + count_mentions_from(terms, str, k + 1)

count_mentions(terms, str) == count_mentions_from(terms, str, 1)

\* for cert in certifications: if cert.lower() in text_content: append(cert)
RECURSIVE find_certifications_from(_, _)
find_certifications_from(str, k) ==
    IF k > Len(certifications) THEN <<>>
    ELSE IF str_contains(lower(Chars(certifications[k])), str)
         THEN <<certifications[k]>> \o find_certifications_from(str, k + 1)
         ELSE find_certifications_from(str, k + 1)

find_certifications(str) == find_certifications_from(str, 1)

\* The substrings that make a link a quality-related page.
link_terms ==
    <<<<"q", "u", "a", "l", "i", "t", "y">>,
      <<"c", "e", "r", "t", "i", "f", "i", "c", "a", "t", "i", "o", "n">>,
      <<"c", "o", "m", "p", "l", "i", "a", "n", "c", "e">>>>

is_quality_href(href) ==
    \E k \in 1 .. Len(link_terms) : str_contains(link_terms[k], lower(href))

\* for link in soup.find_all('a', href=True): ... quality_pages.append(urljoin(url, href))
RECURSIVE find_quality_pages_from(_, _, _)
find_quality_pages_from(url, hrefs, k) ==
    IF k > Len(hrefs) THEN <<>>
    ELSE IF is_quality_href(hrefs[k])
         THEN <<[base |-> url, href |-> hrefs[k]]>> \o find_quality_pages_from(url, hrefs, k + 1)
         ELSE find_quality_pages_from(url, hrefs, k + 1)

find_quality_pages(url, hrefs) == find_quality_pages_from(url, hrefs, 1)

-----------------------------------------------------------------------------
(* WebScraper._calculate_suggested_scores.                                  *)

\* Python's min and max of two ints.
min(a, b) == IF a <= b THEN a ELSE b
max(a, b) == IF a >= b THEN a ELSE b

calculate_suggested_scores_noclamp(r) ==
    [k \in {"QMS", "ProcessControl", "SPC"} |->
        CASE k = "QMS" ->
                max(1, (Len(r.certifications_found) * 2) + (r.quality_mentions \div 5))
          [] k = "ProcessControl" ->
                max(1, min((r.process_mentions \div 3) + (Len(r.quality_pages) \div 2), 10))
          [] k = "SPC" ->
                max(1, min((r.tools_mentions \div 2) + Len(r.certifications_found), 10))]

calculate_suggested_scores_div(r) ==
    [k \in {"QMS", "ProcessControl", "SPC"} |->
        CASE k = "QMS" ->
                max(1, min((Len(r.certifications_found) * 2) + (r.quality_mentions \div 5), 10))
          [] k = "ProcessControl" ->
                max(1, min((r.process_mentions \div 2) + (Len(r.quality_pages) \div 2), 10))
          [] k = "SPC" ->
                max(1, min((r.tools_mentions \div 2) + Len(r.certifications_found), 10))]

calculate_suggested_scores_nofloor(r) ==
    [k \in {"QMS", "ProcessControl", "SPC"} |->
        CASE k = "QMS" ->
                max(1, min((Len(r.certifications_found) * 2) + (r.quality_mentions \div 5), 10))
          [] k = "ProcessControl" ->
                max(1, min((r.process_mentions \div 3) + (Len(r.quality_pages) \div 2), 10))
          [] k = "SPC" ->
                min((r.tools_mentions \div 2) + Len(r.certifications_found), 10)]

calculate_suggested_scores_mod(r) ==
    [k \in {"QMS", "ProcessControl", "SPC"} |->
        CASE k = "QMS" ->
                max(1, min((Len(r.certifications_found) * 2) + (r.quality_mentions % 5), 10))
          [] k = "ProcessControl" ->
                max(1, min((r.process_mentions \div 3) + (Len(r.quality_pages) \div 2), 10))
          [] k = "SPC" ->
                max(1, min((r.tools_mentions \div 2) + Len(r.certifications_found), 10))]

calculate_suggested_scores(r) ==
    [k \in {"QMS", "ProcessControl", "SPC"} |->
        CASE k = "QMS" ->
                max(1, min((Len(r.certifications_found) * 2) + (r.quality_mentions \div 5), 10))
          [] k = "ProcessControl" ->
                max(1, min((r.process_mentions \div 3) + (Len(r.quality_pages) \div 2), 10))
          [] k = "SPC" ->
                max(1, min((r.tools_mentions \div 2) + Len(r.certifications_found), 10))]

-----------------------------------------------------------------------------
(* SpecScore: the score derivation applied to every input of a bounded set. *)

MentionInputs == (0 .. MaxMentions) \cup {BigMentions}

\* A quality page as scrape_website records it: the page URL joined with a href.
PageInput == [base |-> "http://example.com", href |-> "/quality"]

ScoreInputs ==
    [certifications_found :
        {SubSeq(certifications, 1, n) : n \in 0 .. min(MaxCerts, Len(certifications))},
     quality_mentions : MentionInputs,
     process_mentions : MentionInputs,
     tools_mentions : MentionInputs,
     quality_pages : {[i \in 1 .. n |-> PageInput] : n \in 0 .. MaxPages},
     suggested_scores : {EmptyDict}]

InitScore ==
    /\ capabilities = base_capabilities
    /\ pre_capabilities = base_capabilities
    /\ last_call = NoCall
    /\ ncalls = 0
    /\ download = NoDownload
    /\ results \in ScoreInputs
    /\ page = NoPage
    /\ widgets = NoWidgets
    /\ session_state = EmptyDict

\* results['suggested_scores'] = self._calculate_suggested_scores(results)
CalculateSuggestedScores ==
    /\ DOMAIN results.suggested_scores = {}
    /\ results' = [results EXCEPT !.suggested_scores = calculate_suggested_scores(results)]
    /\ UNCHANGED <<page, widgets, session_state>>
    /\ UNCHANGED catalog_vars

NextScore == CalculateSuggestedScores

SpecScore == InitScore /\ [][NextScore]_vars

-----------------------------------------------------------------------------
(* Claims about the score derivation, checked under SpecScore.              *)

Capabilities3 == {"QMS", "ProcessControl", "SPC"}

Derived == DOMAIN results.suggested_scores # {}

\* C1: for every combination of non-negative inputs, each of the three scores
\* returned by _calculate_suggested_scores is an integer in 1..10, however large
\* the inputs are.
C1_ScoresInRange ==
    Derived =>
        \A k \in DOMAIN results.suggested_scores :
            results.suggested_scores[k] \in 1 .. 10

\* C1 witness: the derivation ran on a very large mention count together with
\* the largest number of certifications, and QMS is 10.
C1_Witness ==
    /\ Derived
    /\ results.quality_mentions = BigMentions
    /\ Len(results.certifications_found) = MaxCerts
    /\ results.suggested_scores["QMS"] = 10

clamp(lo, hi, v) == IF v < lo THEN lo ELSE IF v > hi THEN hi ELSE v

\* C2: QMS = clamp(1, 10, 2*|certifications_found| + quality_mentions div 5),
\* ProcessControl = clamp(1, 10, process_mentions div 3 + |quality_pages| div 2),
\* SPC = clamp(1, 10, tools_mentions div 2 + |certifications_found|), div being
\* floor division.
C2_ScoreFormulas ==
    Derived =>
        LET nc == Len(results.certifications_found)
            np == Len(results.quality_pages) IN
        /\ results.suggested_scores["QMS"] =
              clamp(1, 10, 2 * nc + results.quality_mentions \div 5)
        /\ results.suggested_scores["ProcessControl"] =
              clamp(1, 10, results.process_mentions \div 3 + np \div 2)
        /\ results.suggested_scores["SPC"] =
              clamp(1, 10, results.tools_mentions \div 2 + nc)

\* C2 witness: the scenario of one certification and five quality mentions gives
\* QMS 3, ProcessControl 1, SPC 1.
C2_Witness ==
    /\ Derived
    /\ Len(results.certifications_found) = 1
    /\ results.quality_mentions = 5
    /\ results.process_mentions = 0
    /\ results.tools_mentions = 0
    /\ Len(results.quality_pages) = 0
    /\ results.suggested_scores["QMS"] = 3
    /\ results.suggested_scores["ProcessControl"] = 1
    /\ results.suggested_scores["SPC"] = 1

AllInputsZero ==
    /\ Len(results.certifications_found) = 0
    /\ results.quality_mentions = 0
    /\ results.process_mentions = 0
    /\ results.tools_mentions = 0
    /\ Len(results.quality_pages) = 0

\* C3: the derived scores always hold an entry for each of QMS, ProcessControl and
\* SPC, also when every input count is zero; then each of the three is 1, and no
\* score is ever 0.
C3_EntryPerCapability ==
    Derived =>
        /\ DOMAIN results.suggested_scores = Capabilities3
        /\ \A k \in Capabilities3 : results.suggested_scores[k] # 0
        /\ AllInputsZero => \A k \in Capabilities3 : results.suggested_scores[k] = 1

\* C3 witness: the derivation ran on all-zero inputs.
C3_Witness ==
    /\ Derived
    /\ AllInputsZero
    /\ \A k \in Capabilities3 : results.suggested_scores[k] = 1

\* The inputs that exceed r in exactly one input, by one.
OneMore(r) ==
    {[r EXCEPT !.certifications_found = Append(@, "HACCP")],
     [r EXCEPT !.quality_mentions = @ + 1],
     [r EXCEPT !.process_mentions = @ + 1],
     [r EXCEPT !.tools_mentions = @ + 1],
     [r EXCEPT !.quality_pages = Append(@, PageInput)]}

\* C18: each suggested score is monotone non-decreasing in its inputs: one more
\* certification found, one more mention of any category or one more quality
\* page, the other inputs held fixed, never lowers QMS, ProcessControl or SPC.
C18_Monotone ==
    Derived =>
        \A r2 \in OneMore(results) : \A k \in Capabilities3 :
            calculate_suggested_scores(r2)[k] >= results.suggested_scores[k]

\* C18 witness: the derivation ran on inputs where one more quality mention
\* raises QMS (4 mentions, score below the cap).
C18_Witness ==
    /\ Derived
    /\ results.quality_mentions = 4
    /\ results.suggested_scores["QMS"] < 10
    /\ calculate_suggested_scores([results EXCEPT !.quality_mentions = @ + 1])["QMS"]
          > results.suggested_scores["QMS"]

-----------------------------------------------------------------------------
(* WebScraper.scrape_website and the Website Analysis handler.              *)

\* The dict scrape_website returns from its except branch.
error_results(message) ==
    [error |-> message, certifications_found |-> <<>>, quality_mentions |-> 0,
     process_mentions |-> 0, tools_mentions |-> 0, quality_pages |-> <<>>,
     suggested_scores |-> EmptyDict]

\* The dict scrape_website builds in its try branch, before the scores are derived.
counted_results(url, pg) ==
    LET text_content == lower(pg.text) IN
    [certifications_found |-> find_certifications(text_content),
     quality_mentions |-> count_mentions(quality_terms, text_content),
     process_mentions |-> count_mentions(process_terms, text_content),
     tools_mentions |-> count_mentions(tools_terms, text_content),
     quality_pages |-> find_quality_pages(url, pg.hrefs),
     suggested_scores |-> EmptyDict]

scrape_website_scores_on_error(url, pg, fetch) ==
    IF fetch = "ok"
    THEN LET r == counted_results(url, pg) IN
         [r EXCEPT !.suggested_scores = calculate_suggested_scores(r)]
    ELSE LET r == error_results(fetch) IN
         [r EXCEPT !.suggested_scores = calculate_suggested_scores(r)]

\* fetch is what requests.get / raise_for_status did: "ok", or the exception raised.
scrape_website(url, pg, fetch) ==
    IF fetch = "ok"
    THEN LET r == counted_results(url, pg) IN
         [r EXCEPT !.suggested_scores = calculate_suggested_scores(r)]
    ELSE error_results(fetch)

\* The pieces of text a page is put together from.
TokenInputs ==
    {<<"S", "t", "a", "t", "i", "s", "t", "i", "c", "a", "l", " ">>,
     <<"P", "r", "o", "c", "e", "s", "s", " ", "C", "o", "n", "t", "r", "o", "l">>,
     <<"G", "M", "P">>,
     <<"Q", "M", "S">>,
     <<" ">>}

\* The hrefs a page's links carry.
HrefInputs ==
    {<<"/", "Q", "u", "a", "l", "i", "t", "y", "-", "P", "o", "l", "i", "c", "y">>,
     <<"/", "a", "b", "o", "u", "t">>}

RECURSIVE concat(_)
concat(pieces) == IF pieces = <<>> THEN <<>> ELSE Head(pieces) \o concat(Tail(pieces))

SeqsUpTo(S, n) == UNION {[1 .. k -> S] : k \in 0 .. n}

PageInputs ==
    {[text |-> concat(pieces), hrefs |-> hrefs] :
        pieces \in SeqsUpTo(TokenInputs, MaxTokens), hrefs \in SeqsUpTo(HrefInputs, MaxLinks)}

UrlInputs == {"", "http://example.com"}
FetchOutcomes == {"ok", "ConnectionError", "HTTPError"}

\* What the handler renders for the results of a scrape.
display(r) ==
    IF "error" \in DOMAIN r
    THEN [kind |-> "error", message |-> r.error, metrics |-> EmptyDict, use_button |-> FALSE]
    ELSE [kind |-> "results", message |-> "", metrics |-> r.suggested_scores, use_button |-> TRUE]

\* session_state[f"score_{cap_id}"] = score, for every suggested score.
adopt(state, suggested) ==
    [k \in DOMAIN state \cup DOMAIN suggested |->
        IF k \in DOMAIN suggested THEN suggested[k] ELSE state[k]]

InitScrape ==
    /\ capabilities = base_capabilities
    /\ pre_capabilities = base_capabilities
    /\ last_call = NoCall
    /\ ncalls = 0
    /\ download = NoDownload
    /\ results = NoResults
    /\ page \in PageInputs
    /\ widgets = NoWidgets
    /\ session_state = EmptyDict

\* "Analyze Website" pressed with a URL entered: scrape, then display.
AnalyzeWebsite ==
    \E url \in UrlInputs \ {""}, fetch \in FetchOutcomes :
        /\ results' = scrape_website(url, page, fetch)
        /\ widgets' = display(results')
        /\ UNCHANGED <<page, session_state>>
        /\ UNCHANGED catalog_vars

\* "Analyze Website" pressed with no URL entered.
AnalyzeWithoutUrl ==
    /\ results' = NoResults
    /\ widgets' = [kind |-> "warning", message |-> "Please enter a website URL",
                   metrics |-> EmptyDict, use_button |-> FALSE]
    /\ UNCHANGED <<page, session_state>>
    /\ UNCHANGED catalog_vars

\* "Use Suggested Scores" pressed; the button exists only where it was rendered.
UseSuggestedScores ==
    /\ widgets.use_button
    /\ session_state' = adopt(session_state, results.suggested_scores)
    /\ widgets' = [widgets EXCEPT !.message = "Scores updated!"]
    /\ UNCHANGED <<results, page>>
    /\ UNCHANGED catalog_vars

NextScrape == AnalyzeWebsite \/ AnalyzeWithoutUrl \/ UseSuggestedScores

SpecScrape == InitScrape /\ [][NextScrape]_vars

-----------------------------------------------------------------------------
(* Claims about scraping and the Website Analysis handler, under SpecScrape. *)

HasError == "error" \in DOMAIN results

\* The last handler run scraped the page successfully.
Scraped == widgets.kind = "results"

\* C4: when the content source fails, the result carries an error indicator with
\* the "no signal" value (no certifications, all counts zero, no quality pages),
\* the score derivation is not applied to it, the handler shows the error and
\* neither presents nor adopts suggested scores from that result.
C4_FailureResult ==
    HasError =>
        /\ results.error # ""
        /\ results.certifications_found = <<>>
        /\ results.quality_mentions = 0
        /\ results.process_mentions = 0
        /\ results.tools_mentions = 0
        /\ results.quality_pages = <<>>
        /\ DOMAIN results.suggested_scores = {}
        /\ widgets.kind = "error"
        /\ widgets.message = results.error
        /\ DOMAIN widgets.metrics = {}
        /\ ~widgets.use_button

\* A step taken while the current result is a failure leaves the adopted scores alone.
C4_FailureNeverAdopted == HasError => session_state' = session_state

\* C4 as one formula: the failure result is the error-tagged "no signal" value
\* with no derived scores, shown as an error with no scores and no adopt button,
\* in every state; and no step adopts scores while the current result is a failure.
C4_SourceFailure == [] C4_FailureResult /\ [][C4_FailureNeverAdopted]_vars

\* C4 witness: a fetch of a page that does hold signals failed, after scores of
\* an earlier successful analysis had been adopted.
C4_Witness ==
    /\ HasError
    /\ widgets.kind = "error"
    /\ page.text # <<>>
    /\ DOMAIN session_state # {}

\* term occurs in str at position i as a whole word or phrase: the characters
\* next to it on either side, if any, are not letters, digits or underscore.
WholeWordAt(term, str, i) ==
    /\ i + Len(term) - 1 <= Len(str)
    /\ \A j \in 1 .. Len(term) : str[i + j - 1] = term[j]
    /\ i = 1 \/ str[i - 1] \notin WordChars
    /\ i + Len(term) - 1 = Len(str) \/ str[i + Len(term)] \notin WordChars

WholeWordOccurrences(term, str) ==
    Cardinality({i \in 1 .. Len(str) : WholeWordAt(term, str, i)})

Range(f) == {f[i] : i \in DOMAIN f}

\* C5: a certification term is in certifications_found if and only if it occurs
\* in the lower-cased text as a whole word or phrase; an occurrence inside a
\* longer word does not count.
C5_CertificationWholeWord ==
    Scraped =>
        \A k \in 1 .. Len(certifications) :
            certifications[k] \in Range(results.certifications_found)
                <=> WholeWordOccurrences(lower(Chars(certifications[k])), lower(page.text)) > 0

RECURSIVE SumOccurrences(_, _, _)
SumOccurrences(terms, str, k) ==
    IF k = 0 THEN 0
    ELSE WholeWordOccurrences(lower(Chars(terms[k])), str) + SumOccurrences(terms, str, k - 1)

\* C6: each mention count is the sum, over every term of its category, of the
\* number of whole-word occurrences of that term in the text; terms that overlap
\* in the text are each counted, with no deduplication between terms.
C6_MentionCounts ==
    Scraped =>
        LET str == lower(page.text) IN
        /\ results.quality_mentions = SumOccurrences(quality_terms, str, Len(quality_terms))
        /\ results.process_mentions = SumOccurrences(process_terms, str, Len(process_terms))
        /\ results.tools_mentions = SumOccurrences(tools_terms, str, Len(tools_terms))

StatisticalProcessControl == Chars("statistical process control")

\* C6 witness: the page text is "Statistical Process Control", once; the count
\* is 2, one for "statistical process control" and one for "process control".
C6_Witness ==
    /\ Scraped
    /\ lower(page.text) = StatisticalProcessControl
    /\ results.process_mentions = 2
    /\ results.quality_mentions = 0

====
